---- MODULE Spec2Model ----
(***************************************************************************)
(* Model of the agora-engine discussion relay: the MySQL-backed Thread     *)
(* Store (app/repositories/thread_repository.py), the chat-turn handler,   *)
(* the mention parser and the title flow (app/main.py), and the request    *)
(* validation of app/models/chat.py.                                       *)
(*                                                                         *)
(* Strings the code inspects character by character (responder output,     *)
(* titles) are sequences of one-character strings.  Two non-ASCII letters  *)
(* are written by name: "DOTTED_I" is U+0130, "dotless_i" is U+0131 and    *)
(* "COMB_DOT" is U+0307.                                                   *)
(***************************************************************************)
EXTENDS Integers, Sequences, FiniteSets, TLC

VARIABLES
    threads,      \* table threads: set of rows [id, title, created_at, updated_at]
    messages,     \* table messages: rows in insertion order
    db_clock,     \* last value the database clock (NOW(), CURRENT_TIMESTAMP) returned
    app_clock,    \* last value the application clock (datetime.now()) returned
    uuids,        \* number of uuid.uuid4() values drawn so far
    pc,           \* per request: the await point its handler is suspended at
    req,          \* per request: the validated request object
    loc,          \* per request: the handler's local variables
    resp,         \* per request: the HTTP response, once produced
    invoked,      \* per request: the agents whose run() the handler has called
    text,         \* mention-parser harness: the response text
    current_model,\* mention-parser harness: the producer
    mentioned,    \* mention-parser harness: parse_mention's return value
    raw_title,    \* title harness: response.output of the title responder
    new_title,    \* title harness: <<title>> once generate_title computed it
    chat_request, \* composer harness: the ChatRequest
    prompts,      \* composer harness: what combine_messages returned, call by call
    op_pc,        \* pool harness: per store operation, where it stands
    pool_used     \* pool harness: the operations that hold a connection

vars == <<threads, messages, db_clock, app_clock, uuids, pc, req, loc, resp,
          invoked, text, current_model, mentioned, raw_title, new_title, chat_request, prompts,
          op_pc, pool_used>>

storeVars ==
    <<threads, messages, db_clock, app_clock, uuids, pc, req, loc, resp, invoked>>
mentionVars == <<text, current_model, mentioned>>
titleVars == <<raw_title, new_title>>
composerVars == <<chat_request, prompts>>
poolVars == <<op_pc, pool_used>>

\* what the handlers of the server never touch
harnessVars == <<mentionVars, titleVars, composerVars, poolVars>>

-----------------------------------------------------------------------------
(* Bounds of the model *)

\* number of HTTP requests the server receives
MaxRequests == 2

\* the clocks take the values 0..MaxClock
MaxClock == 1

\* the mention-parser harness builds texts of at most this many tokens
MaxTokens == 3

\* the title harness feeds responder outputs of at most this many tokens
MaxTitleTokens == 4

\* the pool harness runs this many store operations
MaxOps == 11

\* the composer harness composes histories of at most this many messages
MaxHistory == 2

-----------------------------------------------------------------------------
(* app/models/chat.py *)

None == "None"

ModelType == {"anthropic", "gpt", "gemini"}

RoleType == {"user", "assistant"}

DefaultModel == "gemini"

OPINION == "opinion"
FREE_TALK == "free_talk"
DiscussionPhase == {OPINION, FREE_TALK}

\* A Message of a request or of a GetThread result.
Message(role, content, model) == [role |-> role, content |-> content, model |-> model]

ValidMessage(m) ==
    /\ m.role \in RoleType
    /\ m.model \in ModelType \cup {None}

\* a ChatRequest whose model field is a plain str
ValidChatRequestAnyModel(body) ==
    /\ Len(body.messages) >= 1
    /\ \A i \in 1..Len(body.messages) : ValidMessage(body.messages[i])

\* pydantic validation of the /chat body (ChatRequest, ChatRequestWithThread)
ValidChatRequest(body) ==
    /\ Len(body.messages) >= 1
    /\ \A i \in 1..Len(body.messages) : ValidMessage(body.messages[i])
    /\ body.model \in ModelType

\* a ChatResponse whose next_model field is a plain str | None
ValidChatResponseAnyStr(next_model) == TRUE

\* pydantic validation of the ChatResponse the handler builds
ValidChatResponse(next_model) ==
    next_model \in ModelType \cup {None}

\* the spelling of each participant name, as the regular expression lists it
Chars(name) ==
    CASE name = "anthropic" -> <<"a", "n", "t", "h", "r", "o", "p", "i", "c">>
      [] name = "gpt"       -> <<"g", "p", "t">>
      [] name = "gemini"    -> <<"g", "e", "m", "i", "n", "i">>

-----------------------------------------------------------------------------
(* app/main.py: MENTION_PATTERN and parse_mention *)

Upper(c) ==
    CASE c = "a" -> "A" [] c = "n" -> "N" [] c = "t" -> "T" [] c = "h" -> "H"
      [] c = "r" -> "R" [] c = "o" -> "O" [] c = "p" -> "P" [] c = "i" -> "I"
      [] c = "c" -> "C" [] c = "g" -> "G" [] c = "e" -> "E" [] c = "m" -> "M"
      [] OTHER -> c

\* re.IGNORECASE on a str pattern: the characters of the text that the pattern
\* character c matches.  Python's Unicode case-insensitive matching lets the
\* letter i also match U+0130 and U+0131.
CaseVariants(c) ==
    IF c = "i" THEN {"i", "I", "DOTTED_I", "dotless_i"} ELSE {c, Upper(c)}

\* str.lower() of one character (U+0130 lowers to "i" followed by U+0307)
LowerChar(c) ==
    CASE c = "A" -> <<"a">> [] c = "N" -> <<"n">> [] c = "T" -> <<"t">>
      [] c = "H" -> <<"h">> [] c = "R" -> <<"r">> [] c = "O" -> <<"o">>
      [] c = "P" -> <<"p">> [] c = "I" -> <<"i">> [] c = "C" -> <<"c">>
      [] c = "G" -> <<"g">> [] c = "E" -> <<"e">> [] c = "M" -> <<"m">>
      [] c = "X" -> <<"x">>
      [] c = "DOTTED_I" -> <<"i", "COMB_DOT">>
      [] OTHER -> <<c>>

RECURSIVE Lower(_)
Lower(s) == IF s = <<>> THEN <<>> ELSE LowerChar(Head(s)) \o Lower(Tail(s))

\* The Python str with the characters s, as a value of the model: a participant
\* identifier when s spells one, and otherwise a string that is none of them.
Str(s) ==
    IF \E n \in ModelType : Chars(n) = s
    THEN CHOOSE n \in ModelType : Chars(n) = s
    ELSE "<other str>"

\* '@' followed by the alternative `name` matches the text s at position i
MatchAt(s, i, name) ==
    /\ i + Len(Chars(name)) <= Len(s)
    /\ s[i] = "@"
    /\ \A k \in 1..Len(Chars(name)) : s[i + k] \in CaseVariants(Chars(name)[k])

\* the alternatives of the group, in the order the pattern tries them
Alternatives == <<"anthropic", "gpt", "gemini">>

FirstAlternative(s, i) ==
    IF MatchAt(s, i, Alternatives[1]) THEN Alternatives[1]
    ELSE IF MatchAt(s, i, Alternatives[2]) THEN Alternatives[2]
    ELSE IF MatchAt(s, i, Alternatives[3]) THEN Alternatives[3]
    ELSE None

\* MENTION_PATTERN.findall(s) from position i: group 1 of every non-overlapping
\* match, left to right
RECURSIVE FindAll(_, _)
FindAll(s, i) ==
    IF i > Len(s) THEN <<>>
    ELSE LET n == FirstAlternative(s, i) IN
         IF n = None THEN FindAll(s, i + 1)
         ELSE <<SubSeq(s, i + 1, i + Len(Chars(n)))>>
              \o FindAll(s, i + 1 + Len(Chars(n)))

\* the loop of parse_mention over matches[k..]
RECURSIVE FirstOther(_, _, _)
FirstOther(matches, k, producer) ==
    IF k > Len(matches) THEN None
    ELSE LET found == Str(Lower(matches[k])) IN
         IF found # producer THEN found
         ELSE FirstOther(matches, k + 1, producer)

parse_mention(s, producer) == FirstOther(FindAll(s, 1), 1, producer)

RECURSIVE Flatten(_)
Flatten(toks) == IF toks = <<>> THEN <<>> ELSE Head(toks) \o Flatten(Tail(toks))

-----------------------------------------------------------------------------
(* app/main.py: combine_messages.  The Korean passages of the two templates  *)
(* hold no '@' and no Latin letter; each is one element, named by what it    *)
(* says.  Everything else is spelled character by character.                 *)

all_models == <<"anthropic", "gpt", "gemini">>

\* ", ".join([m for m in all_models if m != model_name])
RECURSIVE JoinOthers(_, _)
JoinOthers(k, model_name) ==
    IF k > Len(all_models) THEN <<>>
    ELSE LET rest == JoinOthers(k + 1, model_name) IN
         IF all_models[k] = model_name THEN rest
         ELSE IF rest = <<>> THEN Chars(all_models[k])
         ELSE Chars(all_models[k]) \o <<",", " ">> \o rest

other_models(model_name) == JoinOthers(1, model_name)

\* str(message.model) inside the f-string
ModelStr(model) == IF model = None THEN <<"N", "o", "n", "e">> ELSE Chars(model)

\* lines 82-87: the transcript
RECURSIVE Transcript(_)
Transcript(msgs) ==
    IF msgs = <<>> THEN <<>>
    ELSE LET message == Head(msgs) IN
         (IF message.role = "user"
          THEN <<"U", "s", "e", "r", ":", " ">> \o message.content \o <<"\n">>
          ELSE IF message.role = "assistant"
          THEN ModelStr(message.model) \o <<":", " ">> \o message.content \o <<"\n">>
          ELSE <<>>)
         \o Transcript(Tail(msgs))

\* lines 91-92 and 100-101: the two lines both templates start with
Introduction(model_name, others, taking_part) ==
    <<"[dangsin-eun] ">> \o Chars(model_name) \o <<"[ibnida].", "\n", "[jigeum] ">>
    \o others \o <<taking_part, "\n", "\n", "[da-eum-eul gieokhaseyo]:", "\n">>

\* lines 91-97
OpinionInstructions(model_name, others) ==
    Introduction(model_name, others, "[wa hamkke toron-e chamyeohago issseubnida].")
    \o <<"- [soljikhage jasin-ui uigyeonman jesihaseyo]", "\n",
         "- [dareun] ", "A", "I", "[reul eongeubhageona jilmunhaji maseyo]", "\n",
         "- 3-4[mundan inaero jagseonghaseyo]">>

\* the FREE_TALK template without the example of line 106
FreeTalkInstructionsNoExample(model_name, others) ==
    Introduction(model_name, others, "[wa hamkke toronhago issseubnida].")
    \o <<"- [ijeon bareon-e daehae baneunghaseyo (dong-ui, banbag, bochung)]", "\n",
         "- [dareun] ", "A", "I", "[reul chamjohal ttaeneun ireumman sayonghaseyo] (",
         "[ye]: ", "\"", "A", "n", "t", "h", "r", "o", "p", "i", "c",
         "[i malhaessdeusi]", "\"", ",", " ", "\"", "G", "P", "T",
         "[ui uigyeoncheoreom]", "\"", ")", "\n",
         "- [jilmunhal ttaeman eungdab kkeut-e] ", "@", "[reul sayonghaseyo]", "\n",
         "- [yeoreo] ", "A", "I", "[reul dongsie jimoghaji maseyo]", "\n",
         "- 3-4[mundan inaero jagseonghaseyo]">>

\* lines 100-108
FreeTalkInstructions(model_name, others) ==
    Introduction(model_name, others, "[wa hamkke toronhago issseubnida].")
    \o <<"- [ijeon bareon-e daehae baneunghaseyo (dong-ui, banbag, bochung)]", "\n",
         "- [dareun] ", "A", "I", "[reul chamjohal ttaeneun ireumman sayonghaseyo] (",
         "[ye]: ", "\"", "A", "n", "t", "h", "r", "o", "p", "i", "c",
         "[i malhaessdeusi]", "\"", ",", " ", "\"", "G", "P", "T",
         "[ui uigyeoncheoreom]", "\"", ")", "\n",
         "- [jilmunhal ttaeman eungdab kkeut-e] ", "@", "[reul sayonghaseyo] (",
         "[ye]: ", "\"", "@", "g", "p", "t", ",", " ",
         "[ie daehae eotteohge saenggaghanayo]?", "\"", ")", "\n",
         "- [yeoreo] ", "A", "I", "[reul dongsie jimoghaji maseyo]", "\n",
         "- 3-4[mundan inaero jagseonghaseyo]">>

\* lines 110-114: what stands between the instructions and the transcript
TranscriptHeader == <<"\n", "\n", "<", "[jigeumkkaji-ui daehwa]", ">", "\n">>

combine_messages(request) ==
    LET model_name == request.model
        instructions ==
            IF request.phase = OPINION
            THEN OpinionInstructions(model_name, other_models(model_name))
            ELSE FreeTalkInstructions(model_name, other_models(model_name))
    IN  instructions \o TranscriptHeader \o Transcript(request.messages) \o <<"\n">>

-----------------------------------------------------------------------------
(* Values of the model *)

Requests == 1..MaxRequests

Operations == 1..MaxOps

\* a thread id no CreateThread ever generated
UnknownId == 0

\* the empty string as thread_id
EmptyId == -1

\* no thread_id in the /chat body (the field's default, None)
NoThreadId == -2

\* the title "새 토론", one element per character
DefaultTitle == <<"SAE", " ", "TO", "RON">>

TxtHi == <<"h", "i">>
TxtOk == <<"o", "k">>

\* what a responder may answer to a chat prompt
Outputs ==
    { TxtOk,
      <<"@", "g", "p", "t">>,
      <<"@", "g", "e", "m", "dotless_i", "n", "i">> }

\* what the title responder may answer
TitleOutputs == { <<"\"", "T", "\"">> }

\* message histories of a valid /chat body: one that ends with a user turn and
\* one that ends with an assistant turn
Histories ==
    { <<Message("user", TxtHi, None)>>,
      <<Message("user", TxtHi, None), Message("assistant", TxtOk, "gpt")>> }

\* /chat bodies that fail validation: an unknown model, an empty history
ChatBody(thread_id, history, model) ==
    [op |-> "chat", thread_id |-> thread_id, messages |-> history, model |-> model]

NoRequest == [op |-> "none"]
NoLocals ==
    [response_text |-> <<>>, next_model |-> None, thread_row |-> None,
     title |-> <<>>, message_id |-> 0, updated |-> None]
NoResponse == [status |-> 0]

-----------------------------------------------------------------------------
(* The MySQL schema: threads(id, title, created_at, updated_at) and          *)
(* messages(id, thread_id, role, content, model, created_at)                 *)

\* messages.thread_id is a foreign key to threads.id
ForeignKeyHolds(thread_id) == \E t \in threads : t.id = thread_id

\* ... ON DELETE CASCADE: the rows of msgs that survive deleting the thread
CascadeDelete(msgs, thread_id) ==
    SelectSeq(msgs, LAMBDA m : m.thread_id # thread_id)

\* messages.created_at defaults to the database clock at insertion
MessageCreatedAt(now) == now

\* the rows of msgs as a set
Rows(msgs) == {msgs[i] : i \in 1..Len(msgs)}

\* every order in which SELECT ... ORDER BY created_at ASC may return the rows S:
\* rows with equal keys come in any order
RECURSIVE OrdersCreatedAsc(_)
OrdersCreatedAsc(S) ==
    IF S = {} THEN {<<>>}
    ELSE UNION { { <<m>> \o rest : rest \in OrdersCreatedAsc(S \ {m}) } :
                 m \in {x \in S : \A y \in S : x.created_at <= y.created_at} }

\* every order in which SELECT ... ORDER BY updated_at DESC may return the rows S
RECURSIVE OrdersUpdatedDesc(_)
OrdersUpdatedDesc(S) ==
    IF S = {} THEN {<<>>}
    ELSE UNION { { <<m>> \o rest : rest \in OrdersUpdatedDesc(S \ {m}) } :
                 m \in {x \in S : \A y \in S : x.updated_at >= y.updated_at} }

-----------------------------------------------------------------------------
(* app/repositories/thread_repository.py: the statements *)

\* get_threads: SELECT ... FROM threads ORDER BY updated_at DESC
get_threads == OrdersUpdatedDesc(threads)

\* get_thread_by_id, first statement: SELECT ... FROM threads WHERE id = %s
SelectThread(thread_id) == {t \in threads : t.id = thread_id}

\* get_thread_by_id, second statement:
\* SELECT role, content, model FROM messages WHERE thread_id = %s ORDER BY created_at ASC
SelectMessageRows(thread_id) ==
    OrdersCreatedAsc({m \in Rows(messages) : m.thread_id = thread_id})

ProjectMessages(rows) ==
    [i \in 1..Len(rows) |-> Message(rows[i].role, rows[i].content, rows[i].model)]

\* a DELETE whose WHERE clause matches no row
DeleteRowsNone(thread_id) == {}

\* delete_thread: DELETE FROM threads WHERE id = %s
DeleteRows(thread_id) == {t \in threads : t.id = thread_id}

\* return cursor.rowcount >= 0
delete_thread_result_ge(rowcount) == rowcount >= 0

\* delete_thread: return cursor.rowcount > 0
delete_thread_result(rowcount) == rowcount > 0

\* an INSERT whose parameter tuple has message_id and thread_id the wrong way
\* round
MessageRowSwappedIds(message_id, thread_id, role, content, model, now) ==
    [id |-> thread_id, thread_id |-> message_id, role |-> role,
     content |-> content, model |-> model, created_at |-> MessageCreatedAt(now)]

\* add_message, first statement: the row INSERT INTO messages adds
MessageRow(message_id, thread_id, role, content, model, now) ==
    [id |-> message_id, thread_id |-> thread_id, role |-> role,
     content |-> content, model |-> model, created_at |-> MessageCreatedAt(now)]

\* add_message, second statement: UPDATE threads SET updated_at = NOW() WHERE id = %s
BumpUpdatedAt(thread_id, now) ==
    { IF t.id = thread_id THEN [t EXCEPT !.updated_at = now] ELSE t : t \in threads }

\* update_thread_title: UPDATE threads SET title = %s, updated_at = NOW() WHERE id = %s
SetTitle(thread_id, title, now) ==
    { IF t.id = thread_id THEN [t EXCEPT !.title = title, !.updated_at = now] ELSE t :
      t \in threads }

\* the rows the UPDATE of update_thread_title changes.  cursor.rowcount is the
\* affected-rows count of the server, which for an UPDATE counts the rows whose
\* values changed (the pool is created without the FOUND_ROWS client flag): a
\* matched row that already holds the title and the timestamp is not counted.
ChangedRows(thread_id, title, now) ==
    {t \in threads : t.id = thread_id /\ (t.title # title \/ t.updated_at # now)}

\* update_thread_title: return cursor.rowcount > 0
update_thread_title_result(rowcount) == rowcount > 0

-----------------------------------------------------------------------------
(* app/main.py: generate_title's clean-up of the responder output *)

MaxTitle == 50

Whitespace == {" ", "\n", "\t"}
Quotes == {"\"", "'"}

\* str.strip(chars)
RECURSIVE LStrip(_, _)
LStrip(s, chars) ==
    IF s # <<>> /\ Head(s) \in chars THEN LStrip(Tail(s), chars) ELSE s

RECURSIVE RStrip(_, _)
RStrip(s, chars) ==
    IF s # <<>> /\ s[Len(s)] \in chars THEN RStrip(SubSeq(s, 1, Len(s) - 1), chars) ELSE s

Strip(s, chars) == RStrip(LStrip(s, chars), chars)

\* response.output.strip().strip('"\'')[:50]
TitleOf(output) ==
    LET t == Strip(Strip(output, Whitespace), Quotes)
    IN  SubSeq(t, 1, IF Len(t) < MaxTitle THEN Len(t) ELSE MaxTitle)

-----------------------------------------------------------------------------
(* The handlers.  Every await on the database or on a responder is a point   *)
(* where other requests run, so a handler is one action per await.          *)

\* requests are numbered in the order they arrive
Arrives(r) == pc[r] = "new" /\ (IF r = 1 THEN TRUE ELSE pc[r - 1] # "new")

\* the handler is suspended at its next await
Goto(r, label) ==
    /\ pc' = [pc EXCEPT ![r] = label]
    /\ resp' = resp

\* the handler reaches `await <agent>.run(...)`: the agent is called
Invoke(r, agent) == invoked' = [invoked EXCEPT ![r] = Append(@, agent)]

\* the handler returns or raises: its locals are gone, the response is sent
Respond(r, response) ==
    /\ pc' = [pc EXCEPT ![r] = "done"]
    /\ resp' = [resp EXCEPT ![r] = response]
    /\ loc' = [loc EXCEPT ![r] = NoLocals]

\* thread ids a client may send
ThreadIdInputs == {t.id : t \in threads} \cup {UnknownId}

\* the /chat bodies a client may send
ChatBodies ==
    { ChatBody(t, h, m) : t \in ThreadIdInputs \cup {NoThreadId}, h \in Histories,
                          m \in ModelType }
    \cup { ChatBody(t, CHOOSE h \in Histories : Len(h) = 1, "llama") :
           t \in ThreadIdInputs \cup {NoThreadId} }
    \cup { ChatBody(NoThreadId, <<>>, DefaultModel) }

\* Python truthiness of request.thread_id
Truthy(thread_id) == thread_id # NoThreadId /\ thread_id # EmptyId

ThreadBody(row) ==
    [id |-> row.id, title |-> row.title,
     created_at |-> row.created_at, updated_at |-> row.updated_at]

\* create_thread, lines 18-21: the row INSERT INTO threads adds
ThreadRow(thread_id, title, now) ==
    [id |-> thread_id, title |-> title, created_at |-> now, updated_at |-> now]

\* POST /threads and thread_repository.create_thread
CreateThread(r) ==
    /\ Arrives(r)
    /\ \E now \in app_clock..MaxClock :
         LET thread_id == uuids + 1
             row == ThreadRow(thread_id, DefaultTitle, now)
         IN  /\ app_clock' = now
             /\ uuids' = thread_id
             /\ threads' = threads \cup {row}
             /\ req' = [req EXCEPT ![r] = [op |-> "create_thread"]]
             /\ Respond(r, [status |-> 200, body |-> ThreadBody(row)])
    /\ UNCHANGED <<messages, db_clock, invoked, harnessVars>>

\* GET /threads and thread_repository.get_threads
GetThreads(r) ==
    /\ Arrives(r)
    /\ \E rows \in get_threads :
         Respond(r, [status |-> 200,
                     body |-> [i \in 1..Len(rows) |-> ThreadBody(rows[i])]])
    /\ req' = [req EXCEPT ![r] = [op |-> "get_threads"]]
    /\ UNCHANGED <<threads, messages, db_clock, app_clock, uuids, invoked, harnessVars>>

\* GET /threads/{thread_id}: the request reaches get_thread_by_id
GetThread(r) ==
    /\ Arrives(r)
    /\ \E thread_id \in ThreadIdInputs :
         req' = [req EXCEPT ![r] = [op |-> "get_thread", thread_id |-> thread_id]]
    /\ Goto(r, "select_thread")
    /\ UNCHANGED <<threads, messages, db_clock, app_clock, uuids, loc, invoked, harnessVars>>

\* get_thread_by_id, first statement; the caller answers 404 on None
SelectThreadStep(r) ==
    /\ pc[r] = "select_thread"
    /\ LET found == SelectThread(req[r].thread_id) IN
         IF found = {}
         THEN Respond(r, [status |-> 404])
         ELSE /\ loc' = [loc EXCEPT ![r].thread_row = CHOOSE t \in found : TRUE]
              /\ Goto(r, "select_messages")
    /\ UNCHANGED <<threads, messages, db_clock, app_clock, uuids, req, invoked, harnessVars>>

\* get_thread_by_id, second statement, and the response of the endpoint:
\* ThreadDetail for GET /threads/{id}, Thread for generate-title
SelectMessagesStep(r) ==
    /\ pc[r] = "select_messages"
    /\ \E rows \in SelectMessageRows(req[r].thread_id) :
         Respond(r, [status |-> 200,
                     body |-> IF req[r].op = "get_thread"
                              THEN [thread |-> ThreadBody(loc[r].thread_row),
                                    messages |-> ProjectMessages(rows)]
                              ELSE [thread |-> ThreadBody(loc[r].thread_row)]])
    /\ UNCHANGED <<threads, messages, db_clock, app_clock, uuids, req, invoked, harnessVars>>

\* DELETE /threads/{thread_id} and thread_repository.delete_thread
DeleteThread(r) ==
    /\ Arrives(r)
    /\ \E thread_id \in ThreadIdInputs :
         LET gone == DeleteRows(thread_id) IN
         /\ req' = [req EXCEPT ![r] = [op |-> "delete_thread", thread_id |-> thread_id]]
         /\ threads' = threads \ gone
         /\ messages' = IF gone = {} THEN messages ELSE CascadeDelete(messages, thread_id)
         /\ IF delete_thread_result(Cardinality(gone))
            THEN Respond(r, [status |-> 200, body |-> [deleted |-> TRUE]])
            ELSE Respond(r, [status |-> 404])
    /\ UNCHANGED <<db_clock, app_clock, uuids, invoked, harnessVars>>

\* chat, lines 214-216: whether the last message of the request is persisted
PersistsUserMessage(request) ==
    /\ Truthy(request.thread_id)
    /\ request.messages # <<>>
    /\ request.messages[Len(request.messages)].role = "user"

\* the responder's output persisted whatever the request says
PersistsAssistantMessageAlways(request) == TRUE

\* chat, line 238: whether the responder's output is persisted
PersistsAssistantMessage(request) == Truthy(request.thread_id)

\* the user message stored with model=request.model
UserMessageArgsWithModel(request) ==
    [role |-> "user",
     content |-> request.messages[Len(request.messages)].content,
     model |-> request.model]

\* chat, lines 217-222 and 239-244: the arguments of the two add_message calls
UserMessageArgs(request) ==
    [role |-> "user",
     content |-> request.messages[Len(request.messages)].content,
     model |-> None]

AssistantMessageArgs(request, response_text) ==
    [role |-> "assistant", content |-> response_text, model |-> request.model]

\* a handler that sends every request to gemini_agent
DispatchGeminiOnly(model) == "gemini"

\* chat, lines 226-231: the agent the if/elif chain runs; None when no branch is taken
Dispatch(model) ==
    IF model = "anthropic" THEN "anthropic"
    ELSE IF model = "gpt" THEN "gpt"
    ELSE IF model = "gemini" THEN "gemini"
    ELSE None

\* chat, lines 246-250: the ChatResponse, which pydantic validates
ChatReturn(r, response_text, next_model) ==
    IF ValidChatResponse(next_model)
    THEN Respond(r, [status |-> 200,
                     body |-> [message |-> Message("assistant", response_text, None),
                               model |-> req[r].model,
                               next_model |-> next_model]])
    ELSE Respond(r, [status |-> 500, error |-> "ValidationError"])

\* POST /chat: validation of the body, then the handler up to its first await
Chat(r) ==
    /\ Arrives(r)
    /\ \E request \in ChatBodies :
         /\ req' = [req EXCEPT ![r] = request]
         /\ IF ~ValidChatRequest(request)
            THEN Respond(r, [status |-> 422])
            ELSE /\ Goto(r, IF PersistsUserMessage(request)
                            THEN "chat_user_insert" ELSE "chat_respond")
                 /\ loc' = loc
         /\ IF ValidChatRequest(request) /\ ~PersistsUserMessage(request)
            THEN Invoke(r, Dispatch(request.model))
            ELSE invoked' = invoked
    /\ UNCHANGED <<threads, messages, db_clock, app_clock, uuids, harnessVars>>

\* add_message, lines 75-81: INSERT INTO messages.  The connection is in
\* autocommit mode (database.py line 27), so the row is committed at once.
AddMessageInsert(r) ==
    /\ pc[r] \in {"chat_user_insert", "chat_asst_insert"}
    /\ LET args == IF pc[r] = "chat_user_insert"
                   THEN UserMessageArgs(req[r])
                   ELSE AssistantMessageArgs(req[r], loc[r].response_text)
           message_id == uuids + 1
       IN  IF ~ForeignKeyHolds(req[r].thread_id)
           THEN /\ Respond(r, [status |-> 500, error |-> "IntegrityError"])
                /\ UNCHANGED <<messages, db_clock, uuids>>
           ELSE /\ \E now \in db_clock..MaxClock :
                     /\ db_clock' = now
                     /\ messages' = Append(messages,
                            MessageRow(message_id, req[r].thread_id, args.role,
                                       args.content, args.model, now))
                /\ uuids' = message_id
                /\ Goto(r, IF pc[r] = "chat_user_insert"
                           THEN "chat_user_update" ELSE "chat_asst_update")
                /\ loc' = [loc EXCEPT ![r].message_id = message_id]
    /\ UNCHANGED <<threads, app_clock, req, invoked, harnessVars>>

\* add_message, lines 83-88: UPDATE threads SET updated_at = NOW(), and the
\* handler up to its next await
AddMessageUpdate(r) ==
    /\ pc[r] \in {"chat_user_update", "chat_asst_update"}
    /\ \E now \in db_clock..MaxClock :
         /\ db_clock' = now
         /\ threads' = BumpUpdatedAt(req[r].thread_id, now)
    /\ IF pc[r] = "chat_user_update"
       THEN /\ Goto(r, "chat_respond")
            /\ Invoke(r, Dispatch(req[r].model))
            /\ loc' = loc
       ELSE /\ ChatReturn(r, loc[r].response_text, loc[r].next_model)
            /\ invoked' = invoked
    /\ UNCHANGED <<messages, app_clock, uuids, req, harnessVars>>

\* chat, lines 224-235: the responder answers, parse_mention runs
ChatRespond(r) ==
    /\ pc[r] = "chat_respond"
    /\ IF Dispatch(req[r].model) = None
       THEN Respond(r, [status |-> 500, error |-> "UnboundLocalError"])
       ELSE \E output \in Outputs :
              LET next_model == parse_mention(output, req[r].model) IN
              IF PersistsAssistantMessage(req[r])
              THEN /\ Goto(r, "chat_asst_insert")
                   /\ loc' = [loc EXCEPT ![r].response_text = output,
                                         ![r].next_model = next_model]
              ELSE ChatReturn(r, output, next_model)
    /\ UNCHANGED <<threads, messages, db_clock, app_clock, uuids, req, invoked, harnessVars>>

\* POST /threads/{thread_id}/generate-title, up to the responder call
GenerateTitle(r) ==
    /\ Arrives(r)
    /\ \E thread_id \in ThreadIdInputs :
         req' = [req EXCEPT ![r] = [op |-> "generate_title", thread_id |-> thread_id]]
    /\ Goto(r, "title_respond")
    /\ Invoke(r, "gemini")
    /\ UNCHANGED <<threads, messages, db_clock, app_clock, uuids, loc, harnessVars>>

\* generate_title, lines 177-178
TitleRespond(r) ==
    /\ pc[r] = "title_respond"
    /\ \E output \in TitleOutputs :
         loc' = [loc EXCEPT ![r].title = TitleOf(output)]
    /\ Goto(r, "title_update")
    /\ UNCHANGED <<threads, messages, db_clock, app_clock, uuids, req, invoked, harnessVars>>

\* generate_title, line 181, and update_thread_title.  The handler drops the
\* value of the await expression; loc[r].updated keeps it until the handler ends.
TitleUpdate(r) ==
    /\ pc[r] = "title_update"
    /\ \E now \in db_clock..MaxClock :
         LET rowcount == Cardinality(ChangedRows(req[r].thread_id, loc[r].title, now)) IN
         /\ db_clock' = now
         /\ threads' = SetTitle(req[r].thread_id, loc[r].title, now)
         /\ loc' = [loc EXCEPT ![r].updated = update_thread_title_result(rowcount)]
    /\ Goto(r, "select_thread")
    /\ UNCHANGED <<messages, app_clock, uuids, req, invoked, harnessVars>>

\* a handler that catches the responder's exception and answers with an empty
\* message
ResponderFailsSwallowed(r) ==
    /\ IF pc[r] = "chat_respond" THEN Dispatch(req[r].model) # None
       ELSE pc[r] = "title_respond"
    /\ Respond(r, [status |-> 200,
                   body |-> [message |-> Message("assistant", <<>>, None),
                             model |-> None, next_model |-> None]])
    /\ UNCHANGED <<threads, messages, db_clock, app_clock, uuids, req, invoked, harnessVars>>

\* a handler that takes the turn's user message back when the responder raises
ResponderFailsRollsBack(r) ==
    /\ IF pc[r] = "chat_respond" THEN Dispatch(req[r].model) # None
       ELSE pc[r] = "title_respond"
    /\ Respond(r, [status |-> 500, error |-> "ResponderError"])
    /\ messages' = IF pc[r] = "chat_respond"
                   THEN SelectSeq(messages, LAMBDA m : m.thread_id # req[r].thread_id)
                   ELSE messages
    /\ UNCHANGED <<threads, db_clock, app_clock, uuids, req, invoked, harnessVars>>

\* an awaited responder raises: the exception leaves the handler
ResponderFails(r) ==
    /\ IF pc[r] = "chat_respond" THEN Dispatch(req[r].model) # None
       ELSE pc[r] = "title_respond"
    /\ Respond(r, [status |-> 500, error |-> "ResponderError"])
    /\ UNCHANGED <<threads, messages, db_clock, app_clock, uuids, req, invoked, harnessVars>>

StorageAwaits ==
    {"select_thread", "select_messages", "chat_user_insert", "chat_user_update",
     "chat_asst_insert", "chat_asst_update", "title_update"}

\* an awaited statement raises (connection lost, server gone): the exception
\* leaves the repository function and the handler.  A handler whose only
\* statement raises has changed nothing, so only the handlers with several
\* awaits have a failure step.
StorageFails(r) ==
    /\ pc[r] \in StorageAwaits
    /\ Respond(r, [status |-> 500, error |-> "OperationalError"])
    /\ UNCHANGED <<threads, messages, db_clock, app_clock, uuids, req, invoked, harnessVars>>

-----------------------------------------------------------------------------
(* The server *)

\* the variables of a part of the model that a specification does not exercise
StoreIdle ==
    /\ threads = {}
    /\ messages = <<>>
    /\ db_clock = 0
    /\ app_clock = 0
    /\ uuids = 0
    /\ pc = [r \in Requests |-> "new"]
    /\ req = [r \in Requests |-> NoRequest]
    /\ loc = [r \in Requests |-> NoLocals]
    /\ resp = [r \in Requests |-> NoResponse]
    /\ invoked = [r \in Requests |-> <<>>]

MentionIdle == text = <<>> /\ current_model = "gemini" /\ mentioned = "unset"

TitleIdle == raw_title = <<>> /\ new_title = <<>>

ComposerIdle == chat_request = NoRequest /\ prompts = <<>>

PoolIdle == op_pc = [o \in Operations |-> "idle"] /\ pool_used = {}

\* The server starts on a database that is empty or that holds threads an
\* earlier run created (CreateThread at time 0) and never used.
InitialThreads ==
    { {}, {ThreadRow(1, DefaultTitle, 0)},
      {ThreadRow(1, DefaultTitle, 0), ThreadRow(2, DefaultTitle, 0)} }

Init ==
    /\ threads \in InitialThreads
    /\ messages = <<>>
    /\ db_clock = 0
    /\ app_clock = 0
    /\ uuids = Cardinality(threads)
    /\ pc = [r \in Requests |-> "new"]
    /\ req = [r \in Requests |-> NoRequest]
    /\ loc = [r \in Requests |-> NoLocals]
    /\ resp = [r \in Requests |-> NoResponse]
    /\ invoked = [r \in Requests |-> <<>>]
    /\ MentionIdle
    /\ TitleIdle
    /\ ComposerIdle
    /\ PoolIdle

Next ==
    \E r \in Requests :
        \/ CreateThread(r)
        \/ GetThreads(r)
        \/ GetThread(r)
        \/ SelectThreadStep(r)
        \/ SelectMessagesStep(r)
        \/ DeleteThread(r)
        \/ Chat(r)
        \/ AddMessageInsert(r)
        \/ AddMessageUpdate(r)
        \/ ChatRespond(r)
        \/ GenerateTitle(r)
        \/ TitleRespond(r)
        \/ TitleUpdate(r)
        \/ ResponderFails(r)
        \/ StorageFails(r)

Spec == Init /\ [][Next]_vars

-----------------------------------------------------------------------------
(* The mention parser on its own: parse_mention applied to every text of at  *)
(* most MaxTokens tokens, for every producer.                                *)

Tokens ==
    { <<"@">>, <<"x">>, <<",">>,
      <<"g", "p", "t">>,
      <<"@", "G", "P", "T">>,
      <<"@", "a", "n", "t", "h", "r", "o", "p", "i", "c">>,
      <<"@", "G", "e", "m", "I", "N", "i">>,
      <<"@", "g", "e", "m", "dotless_i", "n", "i">>,
      <<"@", "A", "N", "T", "H", "R", "O", "P", "DOTTED_I", "C">> }

ExtendText ==
    /\ mentioned = "unset"
    /\ Len(text) < MaxTokens
    /\ \E tok \in Tokens : text' = Append(text, tok)
    /\ UNCHANGED <<current_model, mentioned, storeVars, titleVars, composerVars, poolVars>>

ParseMention ==
    /\ mentioned = "unset"
    /\ mentioned' = parse_mention(Flatten(text), current_model)
    /\ UNCHANGED <<text, current_model, storeVars, titleVars, composerVars, poolVars>>

InitMention ==
    /\ StoreIdle
    /\ text = <<>>
    /\ current_model \in ModelType
    /\ mentioned = "unset"
    /\ TitleIdle
    /\ ComposerIdle
    /\ PoolIdle

NextMention == ExtendText \/ ParseMention

SpecMention == InitMention /\ [][NextMention]_vars

-----------------------------------------------------------------------------
(* The title clean-up on its own: line 178 of generate_title applied to      *)
(* every responder output of at most MaxTitleTokens tokens.                  *)

\* 48 letters: with two more characters the output passes the 50 of line 178
LongRun == [i \in 1..48 |-> "x"]

TitleTokens == { <<"\"">>, <<"'">>, <<" ">>, <<"T">>, LongRun }

TitleInputs ==
    { Flatten(toks) : toks \in UNION { [1..n -> TitleTokens] : n \in 0..MaxTitleTokens } }

\* generate_title, line 178
CleanTitle ==
    /\ new_title = <<>>
    /\ new_title' = <<TitleOf(raw_title)>>
    /\ UNCHANGED <<raw_title, storeVars, mentionVars, composerVars, poolVars>>

InitTitle ==
    /\ StoreIdle
    /\ MentionIdle
    /\ raw_title \in TitleInputs
    /\ new_title = <<>>
    /\ ComposerIdle
    /\ PoolIdle

NextTitle == CleanTitle

SpecTitle == InitTitle /\ [][NextTitle]_vars

-----------------------------------------------------------------------------
(* The prompt composer on its own: combine_messages called twice on every    *)
(* request of at most MaxHistory messages.                                   *)

ComposerMessages ==
    { Message("user", TxtHi, None),
      Message("user", <<"@", "g", "p", "t", "?">>, None),
      Message("assistant", TxtOk, "gpt"),
      Message("assistant", <<"@", "G", "e", "m", "i", "n", "i">>, "anthropic") }

ComposerRequests ==
    { [messages |-> h, model |-> m, phase |-> ph] :
        h \in UNION { [1..n -> ComposerMessages] : n \in 1..MaxHistory },
        m \in ModelType, ph \in DiscussionPhase }

\* chat, line 224
Compose ==
    /\ Len(prompts) < 2
    /\ prompts' = Append(prompts, combine_messages(chat_request))
    /\ UNCHANGED <<chat_request, storeVars, mentionVars, titleVars, poolVars>>

InitComposer ==
    /\ StoreIdle
    /\ MentionIdle
    /\ TitleIdle
    /\ chat_request \in ComposerRequests
    /\ prompts = <<>>
    /\ PoolIdle

NextComposer == Compose

SpecComposer == InitComposer /\ [][NextComposer]_vars

-----------------------------------------------------------------------------
(* app/database.py: the pool on its own.  Every function of the repository   *)
(* runs its statements inside `async with get_cursor()`; MaxOps such calls    *)
(* run concurrently against the one pool that lifespan creates.               *)

\* create_pool: maxsize
maxsize == 10

\* __aexit__ that puts the connection back only when the body did not raise
AExitOnSuccessOnly(used, o, raised) == IF raised THEN used ELSE used \ {o}

\* get_connection: leaving `async with pool.acquire()` hands the connection
\* back to the pool, whether the body returned or raised
AExit(used, o, raised) == used \ {o}

\* the calls are numbered in the order they reach pool.acquire()
Starts(o) == op_pc[o] = "idle" /\ (IF o = 1 THEN TRUE ELSE op_pc[o - 1] # "idle")

\* get_cursor, __aenter__: pool.acquire() waits while maxsize connections are
\* in use
Acquire(o) ==
    /\ Starts(o)
    /\ Cardinality(pool_used) < maxsize
    /\ pool_used' = pool_used \cup {o}
    /\ op_pc' = [op_pc EXCEPT ![o] = "executing"]
    /\ UNCHANGED <<storeVars, mentionVars, titleVars, composerVars>>

\* the body of the `async with` returns
Returns(o) ==
    /\ op_pc[o] = "executing"
    /\ pool_used' = AExit(pool_used, o, FALSE)
    /\ op_pc' = [op_pc EXCEPT ![o] = "returned"]
    /\ UNCHANGED <<storeVars, mentionVars, titleVars, composerVars>>

\* a statement of the body raises
Raises(o) ==
    /\ op_pc[o] = "executing"
    /\ pool_used' = AExit(pool_used, o, TRUE)
    /\ op_pc' = [op_pc EXCEPT ![o] = "raised"]
    /\ UNCHANGED <<storeVars, mentionVars, titleVars, composerVars>>

InitPool ==
    /\ StoreIdle
    /\ MentionIdle
    /\ TitleIdle
    /\ ComposerIdle
    /\ op_pc = [o \in Operations |-> "idle"]
    /\ pool_used = {}

NextPool == \E o \in Operations : Acquire(o) \/ Returns(o) \/ Raises(o)

SpecPool == InitPool /\ [][NextPool]_vars

-----------------------------------------------------------------------------
(* Claims *)

\* the name `name` stands after an '@' at position i of s, compared without
\* regard to case
OccursAt(s, i, name) ==
    /\ i + Len(Chars(name)) <= Len(s)
    /\ s[i] = "@"
    /\ \A k \in 1..Len(Chars(name)) : LowerChar(s[i + k]) = <<Chars(name)[k]>>

\* the positions of s where a participant other than the producer is mentioned
OtherMentions(s, producer) ==
    {i \in 1..Len(s) : \E n \in ModelType \ {producer} : OccursAt(s, i, n)}

\* the participant the contract names: the one mentioned at the leftmost such
\* position, None when there is none
ExpectedMention(s, producer) ==
    IF OtherMentions(s, producer) = {} THEN None
    ELSE LET first == CHOOSE i \in OtherMentions(s, producer) :
                          \A j \in OtherMentions(s, producer) : i <= j
         IN  CHOOSE n \in ModelType \ {producer} : OccursAt(s, first, n)

\* C3: parse_mention returns the canonical identifier of the first mention of a
\* participant other than the producer, and None when there is no such mention.
C3_FirstOtherMention ==
    mentioned # "unset" => mentioned = ExpectedMention(Flatten(text), current_model)

\* C3 on texts of ASCII characters only
C3_FirstOtherMentionAscii ==
    (/\ mentioned # "unset"
     /\ \A i \in 1..Len(Flatten(text)) :
            Flatten(text)[i] \notin {"dotless_i", "DOTTED_I"})
    => mentioned = ExpectedMention(Flatten(text), current_model)

\* the rows of thread_id in the order they were inserted
InsertedRows(thread_id) == SelectSeq(messages, LAMBDA m : m.thread_id = thread_id)

\* the chat requests received so far that name thread_id
ChatsOn(thread_id) ==
    {r \in Requests : req[r].op = "chat" /\ req[r].thread_id = thread_id}

\* request r is a chat turn that returned its response payload
ChatSucceeded(r) ==
    req[r].op = "chat" /\ pc[r] = "done" /\ resp[r].status = 200

\* C1: add_message is atomic: no state holds the row of a call whose UPDATE of
\* the thread's updated_at has not been applied.
C1_AppendAtomic ==
    \A r \in Requests : \A i \in 1..Len(messages) :
        messages[i].id = loc[r].message_id
        => pc[r] \notin {"chat_user_update", "chat_asst_update"}

\* what a thread read back after the turn r, and nothing else, must show
ExpectedTranscript(r) ==
    (IF req[r].messages[Len(req[r].messages)].role = "user"
     THEN <<Message("user", req[r].messages[Len(req[r].messages)].content, None)>>
     ELSE <<>>)
    \o <<Message("assistant", resp[r].body.message.content, req[r].model)>>

\* C2: after a successful chat turn on a thread no other turn wrote to, every
\* GetThread of it shows the last request message, when it is a user message,
\* followed by the assistant reply carrying the acting model, and nothing else;
\* and nothing is persisted while no chat request names a thread.
C2_TurnPersisted ==
    /\ \A r \in Requests :
          (/\ ChatSucceeded(r)
           /\ ForeignKeyHolds(req[r].thread_id)
           /\ ChatsOn(req[r].thread_id) = {r})
          => \A rows \in SelectMessageRows(req[r].thread_id) :
                 ProjectMessages(rows) = ExpectedTranscript(r)
    /\ (\A r \in Requests : req[r].op = "chat" => ~Truthy(req[r].thread_id))
          => messages = <<>>

\* C2 without the order of the two messages
C2_TurnPersistedAnyOrder ==
    /\ \A r \in Requests :
          (/\ ChatSucceeded(r)
           /\ ForeignKeyHolds(req[r].thread_id)
           /\ ChatsOn(req[r].thread_id) = {r})
          => ProjectMessages(InsertedRows(req[r].thread_id)) = ExpectedTranscript(r)
    /\ (\A r \in Requests : req[r].op = "chat" => ~Truthy(req[r].thread_id))
          => messages = <<>>

\* C4: the appends of one chat turn are issued one after the other, so where a
\* single turn wrote to a thread every GetThread returns its messages in the
\* order they were appended.
C4_ReadBackInIssueOrder ==
    \A t \in threads :
        Cardinality(ChatsOn(t.id)) <= 1
        => \A rows \in SelectMessageRows(t.id) : rows = InsertedRows(t.id)

ThreadIds == {t.id : t \in threads}

\* request r takes the step that completes an add_message call on a thread
\* that exists
AppendCompletes(r) ==
    /\ pc[r] \in {"chat_user_update", "chat_asst_update"}
    /\ req[r].thread_id \in ThreadIds
    /\ \/ pc'[r] = "chat_respond"
       \/ /\ pc'[r] = "done"
          /\ IF resp'[r].status = 200 THEN TRUE
             ELSE resp'[r].error = "ValidationError"

\* C5: right after an AppendMessage on an existing thread completes, every
\* ListThreads result has that thread first.
C5_AppendedThreadFirst ==
    [][\A r \in Requests :
          AppendCompletes(r) => \A rows \in get_threads' : rows[1].id = req[r].thread_id]_vars

\* request r takes the step that runs delete_thread(id)
DeleteStep(r, id) ==
    pc[r] = "new" /\ req'[r].op = "delete_thread" /\ req'[r].thread_id = id

\* C6: DeleteThread on an existing thread answers true and removes the thread
\* and every message of it, leaving all other rows as they were; once it has
\* answered true the thread and its messages never show again.
C6_DeleteRemovesThreadAndMessages ==
    [][\A r \in Requests :
          /\ \A id \in ThreadIds :
                DeleteStep(r, id)
                => /\ resp'[r].status = 200
                   /\ threads' = {t \in threads : t.id # id}
                   /\ messages' = SelectSeq(messages, LAMBDA m : m.thread_id # id)
          /\ (req'[r].op = "delete_thread" /\ resp'[r].status = 200)
                => /\ \A t \in threads' : t.id # req'[r].thread_id
                   /\ \A i \in 1..Len(messages') :
                          messages'[i].thread_id # req'[r].thread_id]_vars

\* a thread that a completed chat turn wrote to has been deleted
C6_Witness ==
    \E r, c \in Requests :
        /\ req[r].op = "delete_thread" /\ pc[r] = "done" /\ resp[r].status = 200
        /\ ChatSucceeded(c) /\ req[c].thread_id = req[r].thread_id
        /\ threads # {}

\* C7: a /chat body whose model is none of the three identities is answered
\* 422 on arrival: the handler never runs, so no responder is called, nothing
\* is persisted and no success response is built.
C7_UnknownModelRejected ==
    [][\A r \in Requests :
          (req'[r].op = "chat" /\ req'[r].model \notin ModelType)
          => /\ pc'[r] = "done"
             /\ resp'[r].status = 422
             /\ pc[r] = "new" => (messages' = messages /\ threads' = threads)]_vars

C7_Witness ==
    \E r \in Requests :
        /\ req[r].op = "chat" /\ req[r].model = "llama"
        /\ Truthy(req[r].thread_id) /\ ForeignKeyHolds(req[r].thread_id)
        /\ resp[r].status = 422

ChatAwaits ==
    {"chat_user_insert", "chat_user_update", "chat_respond",
     "chat_asst_insert", "chat_asst_update"}

\* request r takes a step in which the await of step 1, 3 or 5 raises: the
\* handler leaves an await from which no return is reached, or leaves with the
\* storage's or the responder's error
AbortStep(r) ==
    /\ pc[r] \in ChatAwaits
    /\ pc'[r] = "done"
    /\ \/ pc[r] \in {"chat_user_insert", "chat_user_update", "chat_asst_insert"}
       \/ pc[r] = "chat_respond" /\ PersistsAssistantMessage(req[r])
       \/ IF resp'[r].status = 500
          THEN resp'[r].error \in {"OperationalError", "ResponderError"}
          ELSE FALSE

\* C8: when the user-message persist, the responder call or the assistant
\* persist of a chat turn fails, the turn ends there with a 500: the failing
\* step writes nothing, no payload is returned, the request takes no further
\* step, and a turn that failed at the responder leaves no assistant message.
C8_FailureAbortsTurn ==
    [][\A r \in Requests :
          /\ AbortStep(r)
                => /\ resp'[r].status = 500
                   /\ "body" \notin DOMAIN resp'[r]
                   /\ messages' = messages /\ threads' = threads
          /\ pc[r] = "done" => (pc'[r] = "done" /\ resp'[r] = resp[r])
          /\ (/\ req'[r].op = "chat" /\ pc'[r] = "done"
              /\ resp'[r].status = 500 /\ resp'[r].error = "ResponderError"
              /\ \A q \in Requests \ {r} :
                     ~(req'[q].op = "chat" /\ req'[q].thread_id = req'[r].thread_id))
                => \A i \in 1..Len(messages') :
                       messages'[i].thread_id = req'[r].thread_id
                       => messages'[i].role # "assistant"]_vars

\* a turn whose user message was persisted failed at the responder
C8_Witness ==
    \E r \in Requests :
        /\ req[r].op = "chat" /\ pc[r] = "done"
        /\ resp[r].status = 500 /\ resp[r].error = "ResponderError"
        /\ \E i \in 1..Len(messages) :
              messages[i].thread_id = req[r].thread_id /\ messages[i].role = "user"

\* C9: every persisted assistant message names one of the three models and
\* every persisted user message has no model.
C9_MessageModelInvariant ==
    \A i \in 1..Len(messages) :
        /\ messages[i].role = "assistant" => messages[i].model \in ModelType
        /\ messages[i].role = "user" => messages[i].model = None
        /\ messages[i].role \in RoleType

C9_Witness ==
    \E i, j \in 1..Len(messages) :
        messages[i].role = "user" /\ messages[j].role = "assistant"

\* C10: DeleteThread on an id no thread has answers 404 (false, no storage
\* error) and changes no row.
C10_DeleteUnknownThread ==
    [][\A r \in Requests :
          (pc[r] = "new" /\ req'[r].op = "delete_thread"
           /\ req'[r].thread_id \notin ThreadIds)
          => /\ resp'[r].status = 404
             /\ threads' = threads
             /\ messages' = messages]_vars

C10_Witness ==
    \E r \in Requests :
        /\ req[r].op = "delete_thread" /\ resp[r].status = 404
        /\ threads # {} /\ messages # <<>>

\* C11: whatever the title responder answers, the title generate_title
\* computes has at most 50 characters and neither begins nor ends with a quote
\* character.
C11_TitleCleaned ==
    \A i \in 1..Len(new_title) :
        LET t == new_title[i] IN
        /\ Len(t) <= MaxTitle
        /\ t # <<>> => (t[1] \notin Quotes /\ t[Len(t)] \notin Quotes)

\* C11 for the outputs that the clean-up does not truncate
C11_TitleCleanedUntruncated ==
    \A i \in 1..Len(new_title) :
        LET t == new_title[i] IN
        /\ Len(t) <= MaxTitle
        /\ (t # <<>> /\ Len(Strip(Strip(raw_title, Whitespace), Quotes)) <= MaxTitle)
              => (t[1] \notin Quotes /\ t[Len(t)] \notin Quotes)

\* request r takes the step that runs update_thread_title
TitleUpdateStep(r) == pc[r] = "title_update" /\ pc'[r] = "select_thread"

\* what update_thread_title does to the rows, whatever it returns
UpdateTitleEffects(r) ==
    /\ messages' = messages
    /\ \A t \in threads : t.id # req[r].thread_id => t \in threads'
    /\ \A t \in threads :
          t.id = req[r].thread_id
          => [t EXCEPT !.title = loc[r].title, !.updated_at = db_clock'] \in threads'
    /\ Cardinality(threads') = Cardinality(threads)

\* a generate-title request on an id that no thread has takes a step, up to
\* and including its SELECT of the thread
UnknownTitleStep(r) ==
    /\ req'[r].op = "generate_title"
    /\ req'[r].thread_id \notin ThreadIds
    /\ pc[r] \in {"new", "title_respond", "title_update", "select_thread"}
    /\ pc'[r] # pc[r]

\* C12: update_thread_title returns true exactly when a thread with the id
\* exists; it then overwrites the title and stamps updated_at, leaving the
\* messages and the other threads alone, and otherwise changes nothing.
\* generate-title on an id that no thread has ends with 404 and never creates
\* or changes a thread.
C12_UpdateTitle ==
    [][\A r \in Requests :
          /\ TitleUpdateStep(r)
                => /\ loc'[r].updated = (req[r].thread_id \in ThreadIds)
                   /\ UpdateTitleEffects(r)
          /\ UnknownTitleStep(r)
                => /\ threads' = threads /\ messages' = messages
                   /\ pc'[r] = "done" => resp'[r].status \in {404, 500}]_vars

\* C12 without the returned value
C12_UpdateTitleEffects ==
    [][\A r \in Requests :
          /\ TitleUpdateStep(r) => UpdateTitleEffects(r)
          /\ UnknownTitleStep(r)
                => /\ threads' = threads /\ messages' = messages
                   /\ pc'[r] = "done" => resp'[r].status \in {404, 500}]_vars

\* C13: a chat turn without a thread id never calls the Thread Store: every
\* step it takes, to success or to failure, leaves all threads and messages
\* as they were and does not stop at a storage statement.
C13_AnonymousChatWritesNothing ==
    [][\A r \in Requests :
          (req'[r].op = "chat" /\ ~Truthy(req'[r].thread_id) /\ pc'[r] # pc[r])
          => /\ threads' = threads
             /\ messages' = messages
             /\ pc'[r] \notin StorageAwaits]_vars

\* a chat turn without a thread id succeeded, and another one failed at its
\* responder, on a server that holds a thread
C13_Witness ==
    \E r, q \in Requests :
        /\ ChatSucceeded(r) /\ ~Truthy(req[r].thread_id)
        /\ req[q].op = "chat" /\ ~Truthy(req[q].thread_id)
        /\ resp[q].status = 500 /\ resp[q].error = "ResponderError"
        /\ threads # {}

\* the positions of s where MENTION_PATTERN matches.  A match starts with '@'
\* and no participant name holds one, so matches never overlap and findall
\* returns one element per position.
MentionPositions(s) == { i \in 1..Len(s) : FirstAlternative(s, i) # None }

\* the part of the prompt p that is not the transcript of msgs
OutsideTranscript(p, msgs) ==
    SubSeq(p, 1, Len(p) - Len(Transcript(msgs)) - 1) \o <<p[Len(p)]>>

\* C14: in every prompt the text around the transcript holds no '@' followed
\* by a participant name in the OPINION phase and exactly one in the FREE_TALK
\* phase, and two calls with the same request return the same prompt.
C14_ComposerMentions ==
    /\ \A k \in 1..Len(prompts) :
          LET p == prompts[k]
              tr == Transcript(chat_request.messages)
              around == OutsideTranscript(p, chat_request.messages)
          IN  /\ SubSeq(p, Len(p) - Len(tr), Len(p) - 1) = tr
              /\ Cardinality(MentionPositions(around))
                    = IF chat_request.phase = OPINION THEN 0 ELSE 1
    /\ \A j, k \in 1..Len(prompts) : prompts[j] = prompts[k]

\* a FREE_TALK request whose transcript holds two mentions was composed twice
C14_Witness ==
    /\ Len(prompts) = 2
    /\ chat_request.phase = FREE_TALK
    /\ Cardinality(MentionPositions(Transcript(chat_request.messages))) = 2
    /\ Cardinality(MentionPositions(prompts[2])) = 3

\* C15: a connection is held by exactly the store operations that are inside
\* their `async with`: none is held by an operation that returned or raised,
\* so none is held once all have ended, and never more than maxsize are held.
C15_ConnectionsScoped ==
    /\ pool_used = {o \in Operations : op_pc[o] = "executing"}
    /\ Cardinality(pool_used) <= maxsize
    /\ (\A o \in Operations : op_pc[o] \in {"returned", "raised"}) => pool_used = {}

\* the pool is exhausted while an operation that raised has ended
C15_Witness ==
    /\ Cardinality(pool_used) = maxsize
    /\ \E o \in Operations : op_pc[o] = "raised"

\* the moves of a chat handler from one await to the next, in the order of
\* the code: persist the user message (when there is a thread id and the last
\* message is a user turn), call the responder, persist the reply (when there
\* is a thread id), return.  From every await the handler may leave at once
\* with an error.
ChatOrder(request) ==
    (IF PersistsUserMessage(request)
     THEN { <<"new", "chat_user_insert">>, <<"chat_user_insert", "chat_user_update">>,
            <<"chat_user_update", "chat_respond">> }
     ELSE { <<"new", "chat_respond">> })
    \cup
    (IF PersistsAssistantMessage(request)
     THEN { <<"chat_respond", "chat_asst_insert">>,
            <<"chat_asst_insert", "chat_asst_update">>, <<"chat_asst_update", "done">> }
     ELSE { <<"chat_respond", "done">> })

\* where a chat handler stands before it has called the responder
BeforeResponder == {"new", "chat_user_insert", "chat_user_update"}

\* the rows of messages' that the step added
AddedRows == { messages'[i] : i \in (Len(messages) + 1)..Len(messages') }

\* C16: a chat turn goes through its steps in the order of ChatOrder.  A user
\* row is written only by the step before the responder is called, an
\* assistant row only by a step after the responder returned and before the
\* response is sent, and the handler calls one agent, once, on reaching the
\* responder step: the agent named by the request's model.
C16_StepOrder ==
    [][\A r \in Requests :
          (req'[r].op = "chat" /\ pc'[r] # pc[r])
          => /\ \/ <<pc[r], pc'[r]>> \in ChatOrder(req'[r])
                \/ pc'[r] = "done" /\ resp'[r].status \in {422, 500}
             /\ AddedRows # {}
                   => /\ pc[r] \in {"chat_user_insert", "chat_asst_insert"}
                      /\ \A m \in AddedRows :
                            m.role = IF pc[r] = "chat_user_insert"
                                     THEN "user" ELSE "assistant"
             /\ invoked'[r] = IF \/ pc'[r] \in BeforeResponder
                                 \/ pc[r] \in BeforeResponder /\ pc'[r] = "done"
                              THEN <<>>
                              ELSE <<req'[r].model>>
             /\ (pc'[r] = "done" /\ resp'[r].status = 200)
                   => /\ pc[r] = IF PersistsAssistantMessage(req'[r])
                                 THEN "chat_asst_update" ELSE "chat_respond"
                      /\ invoked'[r] = <<req'[r].model>>]_vars

\* a turn on a thread, asked of gpt with a fresh user message, has returned
\* its payload and both of its messages are in the thread
C16_Witness ==
    \E r \in Requests :
        /\ ChatSucceeded(r) /\ req[r].model = "gpt"
        /\ PersistsUserMessage(req[r])
        /\ invoked[r] = <<"gpt">>
        /\ Len(InsertedRows(req[r].thread_id)) >= 2

\* the user rows of thread_id that hold the content
UserRows(thread_id, content) ==
    { i \in 1..Len(messages) :
        /\ messages[i].thread_id = thread_id
        /\ messages[i].role = "user"
        /\ messages[i].content = content }

\* the chat turn r, which persisted its user message, fails at the responder
\* or at the assistant persist
LateFailure(r) ==
    /\ req[r].op = "chat" /\ PersistsUserMessage(req[r])
    /\ pc[r] \in {"chat_respond", "chat_asst_insert", "chat_asst_update"}
    /\ pc'[r] = "done"
    /\ resp'[r].status = 500
    /\ resp'[r].error \in {"ResponderError", "OperationalError", "IntegrityError"}

\* C17: a failure of the responder or of the assistant persist takes nothing
\* back: the user message of the turn stays in its thread (as long as the
\* thread exists), and the user persist of any turn, a repeated one included,
\* adds a row whatever the thread already holds.
C17_RetryDuplicates ==
    [][\A r \in Requests :
          /\ LateFailure(r)
                => /\ messages' = messages
                   /\ req[r].thread_id \in ThreadIds
                         => UserRows(req[r].thread_id,
                                     req[r].messages[Len(req[r].messages)].content) # {}
          /\ (pc[r] = "chat_user_insert" /\ pc'[r] = "chat_user_update")
                => /\ Len(messages') = Len(messages) + 1
                   /\ messages'[Len(messages')].role = "user"
                   /\ messages'[Len(messages')].thread_id = req[r].thread_id]_vars

\* a turn failed at its responder, the same request was issued again and
\* succeeded: the thread holds the user message twice and one assistant message
C17_Witness ==
    /\ req[1].op = "chat" /\ req[2] = req[1]
    /\ resp[1].status = 500 /\ resp[1].error = "ResponderError"
    /\ ChatSucceeded(2)
    /\ LET rows == InsertedRows(req[1].thread_id) IN
          /\ Len(rows) = 3
          /\ rows[1].role = "user" /\ rows[2].role = "user"
          /\ rows[1].content = rows[2].content
          /\ rows[3].role = "assistant"

\* C18: the payload of every chat turn that succeeded names the acting model,
\* carries the responder's output as an assistant message, and its next_model
\* is what parse_mention finds in that output: none, or one of the two other
\* participants, never the acting model.
C18_ResponsePayload ==
    \A r \in Requests :
        ChatSucceeded(r)
        => LET body == resp[r].body IN
           /\ body.model = req[r].model
           /\ body.message.role = "assistant"
           /\ body.message.content \in Outputs
           /\ body.next_model = parse_mention(body.message.content, req[r].model)
           /\ body.next_model \in (ModelType \ {req[r].model}) \cup {None}

\* gpt mentioned itself and hands over to nobody; gemini mentioned gpt and
\* hands over to gpt
C18_Witness ==
    \E r, q \in Requests :
        /\ ChatSucceeded(r) /\ req[r].model = "gpt"
        /\ resp[r].body.message.content = <<"@", "g", "p", "t">>
        /\ resp[r].body.next_model = None
        /\ ChatSucceeded(q) /\ req[q].model = "gemini"
        /\ resp[q].body.next_model = "gpt"

\* C19: no thread was last updated before it was created, whatever the
\* application clock and the database clock show.
C19_UpdatedNotBeforeCreated ==
    \A t \in threads : t.updated_at >= t.created_at

====
